---- MODULE Spec2Model ----
(***************************************************************************)
(* Model of ham2k/lib-callsigns, src/lib/parseCallsign.ts: the callsign    *)
(* parser (parseCallsign), the prefix resolver (processPrefix), the        *)
(* indicator classifier (processPostindicator) and the merge utility       *)
(* (mergeCallsignInfo).                                                    *)
(*                                                                         *)
(* A string is a sequence of one-character strings, so "N0" is <<"N","0">>.*)
(* A ParsedCallsign is a function from the names of the fields that are    *)
(* present to their values: an absent field is not in the DOMAIN.          *)
(***************************************************************************)
EXTENDS Integers, Sequences, FiniteSets, TLC

VARIABLES op, raw, fresh, pres, info, acc, calls, merges

vars == <<op, raw, fresh, pres, info, acc, calls, merges>>

----------------------------------------------------------------------------
(* Characters and strings *)

UpperLetters == <<"A","B","C","D","E","F","G","H","I","J","K","L","M",
                  "N","O","P","Q","R","S","T","U","V","W","X","Y","Z">>

LowerLetters == <<"a","b","c","d","e","f","g","h","i","j","k","l","m",
                  "n","o","p","q","r","s","t","u","v","w","x","y","z">>

Letters == {UpperLetters[i] : i \in 1..26}

Digits == {"0","1","2","3","4","5","6","7","8","9"}

AlphaNum == Letters \cup Digits

WhiteSpace == {" ", "\t", "\n", "\r"}

\* [ACDEHJLOPQSTUVXYZ]: the letters that need a digit to make an ITU prefix
RestrictedLetters == {"A","C","D","E","H","J","L","O","P","Q","S","T","U","V","X","Y","Z"}

\* the text JavaScript concatenates for a field that is absent
Undefined == <<"u","n","d","e","f","i","n","e","d">>

Min(S) == CHOOSE x \in S : \A y \in S : x <= y

Max(S) == CHOOSE x \in S : \A y \in S : x >= y

\* String.prototype.slice(from) with 0 <= from, in 1-based positions: s[from+1 ..]
Drop(s, n) == SubSeq(s, n + 1, Len(s))

Take(s, n) == SubSeq(s, 1, n)

AllIn(s, S) == \A i \in 1..Len(s) : s[i] \in S

\* the length of the longest run of characters of S that starts at position i
RunLen(s, i, S) ==
  LET stops == {j \in i..Len(s) : s[j] \notin S}
  IN  IF stops = {} THEN Len(s) - i + 1 ELSE Min(stops) - i

\* String.prototype.trim
Trim(s) ==
  LET keep == {i \in 1..Len(s) : s[i] \notin WhiteSpace}
  IN  IF keep = {} THEN <<>> ELSE SubSeq(s, Min(keep), Max(keep))

UpperChar(c) ==
  IF \E i \in 1..26 : LowerLetters[i] = c
  THEN UpperLetters[CHOOSE i \in 1..26 : LowerLetters[i] = c]
  ELSE c

\* String.prototype.toUpperCase
ToUpperCase(s) == [i \in 1..Len(s) |-> UpperChar(s[i])]

\* String.prototype.startsWith
StartsWith(s, p) == Len(s) >= Len(p) /\ Take(s, Len(p)) = p

\* positions where p occurs in s
Occurrences(s, p) == {i \in 1..(Len(s) - Len(p) + 1) : SubSeq(s, i, i + Len(p) - 1) = p}

\* a replace that drops only the first character of the occurrence
RemoveFirst_OneChar(s, p) ==
  IF Occurrences(s, p) = {} THEN s
  ELSE LET i == Min(Occurrences(s, p))
       IN  Take(s, i - 1) \o Drop(s, i)

\* String.prototype.replace(p, '') with a string pattern: drops the first occurrence
RemoveFirst(s, p) ==
  IF Occurrences(s, p) = {} THEN s
  ELSE LET i == Min(Occurrences(s, p))
       IN  Take(s, i - 1) \o Drop(s, i + Len(p) - 1)

\* String.prototype.split('/')
RECURSIVE Split(_)
Split(s) ==
  LET slashes == {i \in 1..Len(s) : s[i] = "/"}
  IN  IF slashes = {} THEN <<s>>
      ELSE <<Take(s, Min(slashes) - 1)>> \o Split(Drop(s, Min(slashes)))

----------------------------------------------------------------------------
(* ParsedCallsign records *)

EmptyInfo == [k \in {} |-> <<>>]

Has(r, k) == k \in DOMAIN r

Put(r, k, v) == [x \in DOMAIN r \cup {k} |-> IF x = k THEN v ELSE r[x]]

Del(r, k) == [x \in DOMAIN r \ {k} |-> r[x]]

\* JavaScript truthiness of r[k]: absent and '' are falsy, arrays are truthy
Truthy(r, k) == Has(r, k) /\ (k \in {"postindicators", "indicators"} \/ r[k] # <<>>)

\* r[k] as it is concatenated into a string
Str(r, k) == IF Has(r, k) THEN r[k] ELSE Undefined

----------------------------------------------------------------------------
(* The Entity Table.  data/entityPrefixes.json is not part of the sources   *)
(* at hand; the table holds entries of the two kinds the code's comments    *)
(* name: one that looks like a callsign (VP2V, KH0) and a principal entity  *)
(* prefix (G, but not M).                                                   *)

KNOWN_ENTITIES == { <<"V","P","2","V">>, <<"K","H","0">>, <<"G">> }

----------------------------------------------------------------------------
(* Regular expressions *)

\* SSID_REGEXP = /-[A-Z0-9-]{1,}/ : the matched text, <<>> when there is no match
SsidMatch(s) ==
  LET cls    == AlphaNum \cup {"-"}
      starts == {i \in 1..(Len(s) - 1) : s[i] = "-" /\ s[i + 1] \in cls}
  IN  IF starts = {} THEN <<>>
      ELSE LET i == Min(starts)
           IN  SubSeq(s, i, i + RunLen(s, i + 1, cls))

\* the character at position i, '' past the end
At(s, i) == IF i >= 1 /\ i <= Len(s) THEN s[i] ELSE ""

\* the lengths the second group of CALLSIGN_REGEXP can take at the start of b,
\* in the order the alternatives and their greedy quantifiers try them
CoreLens(b) ==
     (IF At(b, 1) = "5" /\ At(b, 2) = "U"
      THEN [i \in 1..(RunLen(b, 3, Letters) + 1) |-> 2 + RunLen(b, 3, Letters) + 1 - i]
      ELSE <<>>)
  \o (IF At(b, 1) \in Digits /\ At(b, 2) \in Letters
      THEN IF At(b, 3) \in Letters /\ At(b, 4) \in Digits THEN <<4>>
           ELSE IF At(b, 3) \in Digits THEN <<3>> ELSE <<>>
      ELSE <<>>)
  \o (IF At(b, 1) \in RestrictedLetters /\ At(b, 2) \in Digits THEN <<2>> ELSE <<>>)
  \o (IF At(b, 1) \in Letters
      THEN IF At(b, 2) \in Letters /\ At(b, 3) \in Digits THEN <<3>>
           ELSE IF At(b, 2) \in Digits THEN <<2>> ELSE <<>>
      ELSE <<>>)

NoMatch == [ok |-> FALSE, p1 |-> <<>>, p2 |-> <<>>, p3 |-> <<>>, p4 |-> <<>>]

\* a choice of length that lets the third group be empty
CoreLen_NoSuffix(b, lens) ==
  IF \E i \in 1..Len(lens) : Len(b) - lens[i] >= 0
  THEN lens[Min({i \in 1..Len(lens) : Len(b) - lens[i] >= 0})]
  ELSE 0

\* the first of the lengths lens that leaves at least one character of b for
\* the third group, 0 when there is none
CoreLen(b, lens) ==
  IF \E i \in 1..Len(lens) : Len(b) - lens[i] >= 1
  THEN lens[Min({i \in 1..Len(lens) : Len(b) - lens[i] >= 1})]
  ELSE 0

\* the fourth group: nothing, or a slash and at least one of [A-Z0-9/] up to the end
IsPostPart(t) ==
  t = <<>> \/ (Len(t) >= 2 /\ t[1] = "/" /\ AllIn(Drop(t, 1), AlphaNum \cup {"/"}))

\* groups 2 and 3 split b after k characters, group 4 is t
MatchGroups(p1, b, k, t) ==
  IF k = 0 \/ ~IsPostPart(t) THEN NoMatch
  ELSE [ok |-> TRUE, p1 |-> p1, p2 |-> Take(b, k), p3 |-> Drop(b, k), p4 |-> t]

\* groups 2, 3 and 4 of CALLSIGN_REGEXP matched against r, b being the
\* letters and digits r starts with
MatchBaseRun(p1, r, b) == MatchGroups(p1, b, CoreLen(b, CoreLens(b)), Drop(r, Len(b)))

MatchBase(p1, r) == MatchBaseRun(p1, r, Take(r, RunLen(r, 1, AlphaNum)))

\* the position of the first slash of s, 0 when there is none
FirstSlash(s) ==
  IF \E i \in 1..Len(s) : s[i] = "/" THEN Min({i \in 1..Len(s) : s[i] = "/"}) ELSE 0

\* the match with the optional first group ending at slash i
MatchWithPre(s, i) ==
  IF i > 1 /\ AllIn(Take(s, i - 1), AlphaNum) THEN MatchBase(Take(s, i), Drop(s, i)) ELSE NoMatch

FirstOk(m1, m2) == IF m1.ok THEN m1 ELSE m2

\* callsign.match(CALLSIGN_REGEXP): the optional first group is tried first
CallsignMatch(s) == FirstOk(MatchWithPre(s, FirstSlash(s)), MatchBase(<<>>, s))

\* a first group without the alternative for a restricted letter and a digit
PrefixLen_NoRestricted(s) ==
  IF      At(s, 1) = "3" /\ At(s, 2) = "D" /\ At(s, 3) \in AlphaNum THEN 3
  ELSE IF At(s, 1) = "5" /\ At(s, 2) = "U" /\ At(s, 3) \in Letters THEN 3
  ELSE IF At(s, 1) \in Digits /\ At(s, 2) \in Letters THEN (IF At(s, 3) \in Letters THEN 3 ELSE 2)
  ELSE IF At(s, 1) \in Letters THEN (IF At(s, 2) \in Letters THEN 2 ELSE 1)
  ELSE 0

\* a first group that tries a digit and letters before the 3D alternative
PrefixLen_GeneralFirst(s) ==
  IF      At(s, 1) = "5" /\ At(s, 2) = "U" /\ At(s, 3) \in Letters THEN 3
  ELSE IF At(s, 1) \in Digits /\ At(s, 2) \in Letters THEN (IF At(s, 3) \in Letters THEN 3 ELSE 2)
  ELSE IF At(s, 1) = "3" /\ At(s, 2) = "D" /\ At(s, 3) \in AlphaNum THEN 3
  ELSE IF At(s, 1) \in RestrictedLetters /\ At(s, 2) \in Digits THEN 2
  ELSE IF At(s, 1) \in Letters THEN (IF At(s, 2) \in Letters THEN 2 ELSE 1)
  ELSE 0

\* callsign.match(PREFIX_REGEXP): the length of the first group, 0 when no match
PrefixLen(s) ==
  IF      At(s, 1) = "3" /\ At(s, 2) = "D" /\ At(s, 3) \in AlphaNum THEN 3
  ELSE IF At(s, 1) = "5" /\ At(s, 2) = "U" /\ At(s, 3) \in Letters THEN 3
  ELSE IF At(s, 1) \in Digits /\ At(s, 2) \in Letters THEN (IF At(s, 3) \in Letters THEN 3 ELSE 2)
  ELSE IF At(s, 1) \in RestrictedLetters /\ At(s, 2) \in Digits THEN 2
  ELSE IF At(s, 1) \in Letters THEN (IF At(s, 2) \in Letters THEN 2 ELSE 1)
  ELSE 0

\* the groups of PREFIX_REGEXP: the first has k characters, the second d (0 or 1)
PrefixGroups(s, k, d) ==
  IF k = 0 THEN [ok |-> FALSE, p1 |-> <<>>, p2 |-> <<>>, p3 |-> <<>>]
  ELSE [ok |-> TRUE, p1 |-> Take(s, k), p2 |-> SubSeq(s, k + 1, k + d),
        p3 |-> SubSeq(s, k + d + 1, k + d + RunLen(s, k + d + 1, Digits))]

PrefixDigit(s, k) == PrefixGroups(s, k, IF At(s, k + 1) \in Digits THEN 1 ELSE 0)

PrefixMatch(s) == PrefixDigit(s, PrefixLen(s))

\* DIGITS_REGEXP = /^[0-9]+$/
IsDigits(s) == Len(s) >= 1 /\ AllIn(s, Digits)

\* SUFFIXED_COUNTRY_REGEXP = /^([AKNW][LHPG]|K|W|V[AEYO]|CY|O[ABC]|VP9)[0-9]*$/
IsSuffixedCountry(s) ==
  \E k \in    (IF At(s, 1) \in {"A","K","N","W"} /\ At(s, 2) \in {"L","H","P","G"} THEN {2} ELSE {})
         \cup (IF At(s, 1) \in {"K","W"} THEN {1} ELSE {})
         \cup (IF At(s, 1) = "V" /\ At(s, 2) \in {"A","E","Y","O"} THEN {2} ELSE {})
         \cup (IF At(s, 1) = "C" /\ At(s, 2) = "Y" THEN {2} ELSE {})
         \cup (IF At(s, 1) = "O" /\ At(s, 2) \in {"A","B","C"} THEN {2} ELSE {})
         \cup (IF At(s, 1) = "V" /\ At(s, 2) = "P" /\ At(s, 3) = "9" THEN {3} ELSE {})
       : AllIn(Drop(s, k), Digits)

KNOWN_INDICATORS == { <<"Q","R","P">>, <<"P">>, <<"M">>, <<"A","M">>, <<"M","M">>,
                      <<"A","A">>, <<"A","G">>, <<"A","E">>, <<"K","T">>, <<"R">> }

----------------------------------------------------------------------------
(* The Prefix Resolver *)

\* if (prefixParts[3]) info.extendedPrefix = info.prefix + prefixParts[3]
setExtendedPrefix(prefixParts, i3) ==
  IF prefixParts.p3 # <<>> THEN Put(i3, "extendedPrefix", i3.prefix \o prefixParts.p3) ELSE i3

\* an Entity Table test that does not fold the token to upper case
setPrefix_ExactCase(callsign, prefixParts, i1) ==
  IF callsign \in KNOWN_ENTITIES
  THEN Put(i1, "prefix", callsign)
  ELSE setExtendedPrefix(prefixParts, Put(i1, "prefix", i1.ituPrefix \o i1.digit))

\* a prefix that takes every digit after the entity letters
setPrefix_AllDigits(callsign, prefixParts, i1) ==
  Put(i1, "prefix", i1.ituPrefix \o i1.digit \o prefixParts.p3)

\* info.prefix: the token itself for an Entity Table entry, else ituPrefix + digit
setPrefix(callsign, prefixParts, i1) ==
  IF ToUpperCase(callsign) \in KNOWN_ENTITIES
  THEN Put(i1, "prefix", callsign)
  ELSE setExtendedPrefix(prefixParts, Put(i1, "prefix", i1.ituPrefix \o i1.digit))

\* Niger: if (info.ituPrefix?.startsWith('5U')) info.ituPrefix = '5U'
setNigerPrefix(i2) ==
  IF StartsWith(i2.ituPrefix, <<"5","U">>) THEN Put(i2, "ituPrefix", <<"5","U">>) ELSE i2

\* a resolver that empties the record when the token does not match
applyPrefix_ResetOnNoMatch(callsign, prefixParts, info0) ==
  IF ~prefixParts.ok THEN EmptyInfo
  ELSE setNigerPrefix(setPrefix(callsign, prefixParts,
         Put(Put(info0, "ituPrefix", prefixParts.p1), "digit", prefixParts.p2)))

\* a resolver that sets digit only when the token has one
applyPrefix_SkipEmptyDigit(callsign, prefixParts, info0) ==
  IF ~prefixParts.ok THEN info0
  ELSE IF prefixParts.p2 = <<>>
  THEN setNigerPrefix(Put(Put(info0, "ituPrefix", prefixParts.p1), "prefix", prefixParts.p1))
  ELSE setNigerPrefix(setPrefix(callsign, prefixParts,
         Put(Put(info0, "ituPrefix", prefixParts.p1), "digit", prefixParts.p2)))

applyPrefix(callsign, prefixParts, info0) ==
  IF ~prefixParts.ok THEN info0
  ELSE setNigerPrefix(setPrefix(callsign, prefixParts,
         Put(Put(info0, "ituPrefix", prefixParts.p1), "digit", prefixParts.p2)))

processPrefix(callsign, info0) == applyPrefix(callsign, PrefixMatch(callsign), info0)

----------------------------------------------------------------------------
(* The Indicator Classifier *)

\* a digit indicator that recomputes prefix but leaves info.digit as it was
replaceDigit_KeepDigit(indicator, info0) ==
  Put(info0, "prefix", Str(info0, "ituPrefix") \o indicator)

\* info.digit = indicator; info.prefix = info.ituPrefix + info.digit
replaceDigit(indicator, info0) ==
  Put(Put(info0, "digit", indicator), "prefix", Str(info0, "ituPrefix") \o indicator)

\* info.prefixOverride = indicator; processPrefix(indicator, info)
overridePrefix(indicator, info0) ==
  processPrefix(indicator, Put(info0, "prefixOverride", indicator))

\* info.indicators = info.indicators || []; info.indicators.push(indicator)
pushIndicator(indicator, info0) ==
  Put(info0, "indicators",
      (IF Truthy(info0, "indicators") THEN info0.indicators ELSE <<>>) \o <<indicator>>)

\* indicatorParts.ituPrefix || ''
ituPrefixOrEmpty(indicatorParts) ==
  IF Truthy(indicatorParts, "ituPrefix") THEN indicatorParts.ituPrefix ELSE <<>>

\* the branch of processPostindicator that the indicator takes
indicatorBranch(indicator) ==
  IF IsDigits(indicator) THEN "digits"
  ELSE IF IsSuffixedCountry(indicator) THEN "country"
  ELSE IF indicator \in KNOWN_INDICATORS THEN "indicator"
  ELSE IF indicator \in KNOWN_ENTITIES THEN "entity"
  ELSE IF ituPrefixOrEmpty(processPrefix(indicator, EmptyInfo)) \in KNOWN_ENTITIES THEN "ituEntity"
  ELSE "ignored"

applyIndicator(branch, indicator, info0) ==
  IF branch = "digits" THEN replaceDigit(indicator, info0)
  ELSE IF branch = "indicator" THEN pushIndicator(indicator, info0)
  ELSE IF branch \in {"country", "entity", "ituEntity"} THEN overridePrefix(indicator, info0)
  ELSE info0

processPostindicator(indicator, info0) ==
  applyIndicator(indicatorBranch(indicator), indicator, info0)

----------------------------------------------------------------------------
(* The Callsign Parser *)

\* for (const postindicator of info.postindicators || []) processPostindicator(...)
RECURSIVE processPostindicators(_, _)
processPostindicators(list, info0) ==
  IF list = <<>> THEN info0
  ELSE processPostindicators(Tail(list), processPostindicator(Head(list), info0))

\* info.postindicators || []
postindicatorsOrEmpty(info0) ==
  IF Truthy(info0, "postindicators") THEN info0.postindicators ELSE <<>>

\* the SSID step, ssid being the text SSID_REGEXP matched: the record and the
\* callsign text after it
applySsid(callsign1, ssid, info0) ==
  IF ssid # <<>>
  THEN [info |-> Put(info0, "ssid", Drop(ssid, 1)), callsign |-> RemoveFirst(callsign1, ssid)]
  ELSE [info |-> info0, callsign |-> callsign1]

extractSsid(callsign1, info0) == applySsid(callsign1, SsidMatch(callsign1), info0)

\* a pre-indicator that keeps its slash
setPreindicator_KeepSlash(callsignParts, info0) ==
  IF callsignParts.p1 # <<>>
  THEN Put(info0, "preindicator", callsignParts.p1)
  ELSE info0

\* info.preindicator = callsignParts[1] without its slash
setPreindicator(callsignParts, info0) ==
  IF callsignParts.p1 # <<>>
  THEN Put(info0, "preindicator", Take(callsignParts.p1, Len(callsignParts.p1) - 1))
  ELSE info0

\* info.postindicators = callsignParts[4] without its first slash, split at slashes
setPostindicators(callsignParts, info0) ==
  IF callsignParts.p4 # <<>>
  THEN Put(info0, "postindicators", Split(Drop(callsignParts.p4, 1)))
  ELSE info0

\* a correction that puts the base call in front of the post-indicators
swapBaseCall_BaseFirst(baseCall, info0) ==
  Del(Put(Put(info0, "baseCall", info0.preindicator),
          "postindicators", <<baseCall>> \o postindicatorsOrEmpty(info0)),
      "preindicator")

\* the entity-table correction: the pre-indicator becomes the base call
swapBaseCall(baseCall, info0) ==
  Del(Put(Put(info0, "baseCall", info0.preindicator),
          "postindicators", postindicatorsOrEmpty(info0) \o <<baseCall>>),
      "preindicator")

\* an initial prefix that is always resolved from the base call
resolveInitialPrefix_FromBase(info0) == processPrefix(info0.baseCall, info0)

\* the initial prefix: from the pre-indicator if there is one, else from the base call
resolveInitialPrefix(info0) ==
  IF Truthy(info0, "preindicator")
  THEN processPrefix(info0.preindicator, Put(info0, "prefixOverride", info0.preindicator))
  ELSE processPrefix(info0.baseCall, info0)

\* if (callsignParts[2]) { ... }
resolveBaseCall(callsignParts, baseCall, info0) ==
  IF callsignParts.p2 = <<>> THEN info0
  ELSE IF baseCall \in KNOWN_ENTITIES /\ Truthy(info0, "preindicator")
  THEN swapBaseCall(baseCall, info0)
  ELSE resolveInitialPrefix(Put(info0, "baseCall", baseCall))

runPostindicators(info0) == processPostindicators(postindicatorsOrEmpty(info0), info0)

\* if (callsignParts) { ... } return info
applyCallsign(callsign, callsignParts, info0) ==
  IF ~callsignParts.ok THEN info0
  ELSE runPostindicators(
         resolveBaseCall(callsignParts, callsignParts.p2 \o callsignParts.p3,
           setPostindicators(callsignParts,
             setPreindicator(callsignParts, Put(info0, "call", callsign)))))

matchCallsign(stripped) ==
  applyCallsign(stripped.callsign, CallsignMatch(stripped.callsign), stripped.info)

parseCallsign(callsign0, info0) ==
  IF callsign0 = <<>> THEN info0
  ELSE matchCallsign(extractSsid(ToUpperCase(Trim(callsign0)), info0))

----------------------------------------------------------------------------
(* The merge utility *)

CALLSIGN_INFO_KEYS == {"call", "baseCall", "prefix", "ituPrefix", "digit", "preindicator",
                       "postindicators", "prefixOverride", "indicators", "ssid"}

\* the keys of CALLSIGN_INFO_KEYS that newInfo has with a truthy value
truthyKeys(newInfo) == {k \in CALLSIGN_INFO_KEYS : Truthy(newInfo, k)}

\* the loop over CALLSIGN_INFO_KEYS: set the truthy ones, delete the others
\* where base has them
mergeKeys(result0, base, newInfo, set) ==
  [k \in (DOMAIN result0 \ {x \in CALLSIGN_INFO_KEYS \ set : Has(base, x)}) \cup set
     |-> IF k \in set THEN newInfo[k] ELSE result0[k]]

\* options is a record that may hold a destination; EmptyInfo when it is not given
mergeCallsignInfo(base, newInfo, options) ==
  mergeKeys(IF Has(options, "destination") THEN options.destination ELSE base,
            base, newInfo, truthyKeys(newInfo))

\* a call that writes into base itself instead of a copy of it
mergeObjects_NoCopy(base, newInfo) ==
  [result  |-> mergeCallsignInfo(base, newInfo, EmptyInfo),
   base    |-> mergeCallsignInfo(base, newInfo, EmptyInfo),
   newInfo |-> newInfo]

\* the three objects after mergeCallsignInfo(base, newInfo), called without
\* options: result is a new object made from base's fields, and the loop
\* writes to and deletes from result only
mergeObjects(base, newInfo) ==
  [result  |-> mergeCallsignInfo(base, newInfo, EmptyInfo),
   base    |-> base,
   newInfo |-> newInfo]

----------------------------------------------------------------------------
(* Inputs: an optional pre-indicator, a base call, post-indicators, and a   *)
(* decoration (an SSID at the end or after the base call, or lower case     *)
(* with surrounding blanks).                                                *)

MaxPost == 2

MaxCalls == 3

PreParts == { <<>>, <<"Y","V","/">>, <<"1","/">>, <<"5","U","A","/">> }

BaseParts == { <<"N","0","C">>, <<"V","P","2","V">>, <<"N","0">>, <<"K","0","0","P">>,
               <<"5","U","A","B">>, <<"1","0","N">>, <<"1","A","B","0","C">> }

PostTokens == { <<"1">>, <<"2">>, <<"P">>, <<"K","H","6">>, <<"G","1">>, <<"Y","V">>,
                <<>>, <<"V","P","2","V">>, <<"A","G">> }

PostLists == UNION {[1..n -> PostTokens] : n \in 0..MaxPost}

Decorations == {"plain", "ssid", "ssidmid", "lower"}

RECURSIVE JoinPost(_)
JoinPost(list) == IF list = <<>> THEN <<>> ELSE <<"/">> \o Head(list) \o JoinPost(Tail(list))

LowerChar(c) ==
  IF \E i \in 1..26 : UpperLetters[i] = c
  THEN LowerLetters[CHOOSE i \in 1..26 : UpperLetters[i] = c]
  ELSE c

Decorate(pre, base, post, d) ==
  CASE d = "plain"   -> pre \o base \o post
    [] d = "ssid"    -> pre \o base \o post \o <<"-","1">>
    [] d = "ssidmid" -> pre \o base \o <<"-","1">> \o post
    [] d = "lower"   -> LET s == pre \o base \o post
                        IN  <<" ">> \o [i \in 1..Len(s) |-> LowerChar(s[i])] \o <<" ">>

\* short tokens, as the Prefix Resolver is given them
PrefixTokens == { <<"K","1">>, <<"M","5","U","K">>, <<"V","3","3">>, <<"V","3","X","X">>,
                  <<"D","9","K">>, <<"3","D","A","1","A">>, <<"3","D","2","A">>,
                  <<"4","U","1","U">>, <<"5","U","A">>, <<"5","U","A","1","B">>, <<"5","U">>,
                  <<"N">>, <<"G">>, <<"K","H","0">>, <<"Y","V","5">>, <<"T","M","4","0","P">>,
                  <<"1","2">>, <<"7">>, <<"/","P">>, <<"v","p","2","v">>, <<"V","p","2","v">>,
                  <<"2","E","0","A">>, <<"B","2">>, <<"A","1","2","3">>, <<"3","D">> }

Inputs == {Decorate(pre, base, JoinPost(post), d) :
             pre \in PreParts, base \in BaseParts, post \in PostLists, d \in Decorations}
          \cup {<<>>, <<" ">>} \cup PrefixTokens

\* the inputs of the calls that share a record
AccInputs == {Decorate(pre, base, post, "plain") :
                pre \in {<<>>, <<"Y","V","/">>},
                base \in {<<"N","0","C">>, <<"V","P","2","V">>, <<"N","0">>, <<"K","0","0","P">>},
                post \in {<<>>, <<"/","P">>, <<"/","1">>}}
             \cup {<<"N","0","C","-","1">>}

\* the tokens of the calls of the Prefix Resolver that share a record
AccTokens == { <<>>, <<"1","2">>, <<"/","P">>, <<"Y","V">>, <<"K","0","0">>, <<"V","P","2","V">> }

----------------------------------------------------------------------------
(* Calls without an accumulator *)

Init ==
  /\ op = "none"
  /\ raw \in Inputs
  /\ fresh = EmptyInfo
  /\ pres = EmptyInfo
  /\ info = EmptyInfo
  /\ acc = EmptyInfo
  /\ calls = 0
  /\ merges = 0

\* fresh := parseCallsign(raw)
ParseFresh ==
  /\ op = "none"
  /\ fresh' = parseCallsign(raw, EmptyInfo)
  /\ op' = "parse"
  /\ UNCHANGED <<raw, pres, info, acc, calls, merges>>

\* pres := processPrefix(raw)
ResolvePrefix ==
  /\ op = "none"
  /\ pres' = processPrefix(raw, EmptyInfo)
  /\ op' = "prefix"
  /\ UNCHANGED <<raw, fresh, info, acc, calls, merges>>

Next == ParseFresh \/ ResolvePrefix

Spec == Init /\ [][Next]_vars

----------------------------------------------------------------------------
(* Calls that pass the same record as accumulator *)

InitAcc ==
  /\ op = "none"
  /\ raw = <<>>
  /\ fresh = EmptyInfo
  /\ pres = EmptyInfo
  /\ info = EmptyInfo
  /\ acc = EmptyInfo
  /\ calls = 0
  /\ merges = 0

\* info := parseCallsign(s, info)
ParseInto(s) ==
  /\ calls < MaxCalls
  /\ raw' = s
  /\ info' = parseCallsign(s, info)
  /\ calls' = calls + 1
  /\ op' = "parseInto"
  /\ UNCHANGED <<fresh, pres, acc, merges>>

\* info := parseCallsign(s)
ParseNew(s) ==
  /\ calls < MaxCalls
  /\ raw' = s
  /\ info' = parseCallsign(s, EmptyInfo)
  /\ calls' = calls + 1
  /\ op' = "parse"
  /\ UNCHANGED <<fresh, pres, acc, merges>>

\* info := processPrefix(s, info)
ResolveInto(s) ==
  /\ calls < MaxCalls
  /\ raw' = s
  /\ info' = processPrefix(s, info)
  /\ calls' = calls + 1
  /\ op' = "prefixInto"
  /\ UNCHANGED <<fresh, pres, acc, merges>>

\* info := processPrefix(s)
ResolveNew(s) ==
  /\ calls < MaxCalls
  /\ raw' = s
  /\ info' = processPrefix(s, EmptyInfo)
  /\ calls' = calls + 1
  /\ op' = "prefix"
  /\ UNCHANGED <<fresh, pres, acc, merges>>

NextAcc ==
  \/ \E s \in AccInputs : ParseInto(s)
  \/ \E s \in AccInputs : ParseNew(s)
  \/ \E s \in AccTokens : ResolveInto(s)
  \/ \E s \in AccTokens : ResolveNew(s)

SpecAcc == InitAcc /\ [][NextAcc]_vars

----------------------------------------------------------------------------
(* A long-lived record kept up to date with mergeCallsignInfo *)

\* fresh := parseCallsign(s)
Reparse(s) ==
  /\ calls < MaxCalls
  /\ raw' = s
  /\ fresh' = parseCallsign(s, EmptyInfo)
  /\ calls' = calls + 1
  /\ merges' = 0
  /\ op' = "parse"
  /\ UNCHANGED <<pres, info, acc>>

\* the caller keeps the record a parse returned as its long-lived record
Adopt ==
  /\ calls > 0
  /\ merges = 0
  /\ acc' = fresh
  /\ op' = "adopt"
  /\ UNCHANGED <<raw, fresh, pres, info, calls, merges>>

\* acc := mergeCallsignInfo(acc, fresh)
Merge ==
  /\ calls > 0
  /\ acc' = mergeCallsignInfo(acc, fresh, EmptyInfo)
  /\ merges' = IF merges < 2 THEN merges + 1 ELSE 2
  /\ op' = "merge"
  /\ UNCHANGED <<raw, fresh, pres, info, calls>>

\* mergeCallsignInfo(acc, fresh, { destination: acc })
MergeInPlace ==
  /\ calls > 0
  /\ acc' = mergeCallsignInfo(acc, fresh, [destination |-> acc])
  /\ merges' = IF merges < 2 THEN merges + 1 ELSE 2
  /\ op' = "merge"
  /\ UNCHANGED <<raw, fresh, pres, info, calls>>

NextMerge == (\E s \in AccInputs : Reparse(s)) \/ Adopt \/ Merge \/ MergeInPlace

SpecMerge == InitAcc /\ [][NextMerge]_vars

----------------------------------------------------------------------------
(* A caller's record with fields of its own, merged into a copy *)

\* fields of the caller's record that are not callsign fields
OwnKeys == {"name"}

OwnValues == { <<"J","O">>, <<>> }

CopyInputs == { <<"Y","V","/","N","0","C">>, <<"N","0","C">>, <<"N","0","C","/","P">>,
                <<"K","0","0","P","/","1">>, <<"1","2">> }

\* acc[k] := v
Annotate(k, v) ==
  /\ acc' = Put(acc, k, v)
  /\ op' = "annotate"
  /\ UNCHANGED <<raw, fresh, pres, info, calls, merges>>

\* info := mergeCallsignInfo(acc, fresh); acc and fresh are what the call
\* leaves of the objects passed to it
MergeCopy ==
  /\ calls > 0
  /\ info' = mergeObjects(acc, fresh).result
  /\ acc' = mergeObjects(acc, fresh).base
  /\ fresh' = mergeObjects(acc, fresh).newInfo
  /\ op' = "mergeCopy"
  /\ UNCHANGED <<raw, pres, calls, merges>>

\* the caller keeps the returned record as its record
Keep ==
  /\ op = "mergeCopy"
  /\ acc' = info
  /\ op' = "keep"
  /\ UNCHANGED <<raw, fresh, pres, info, calls, merges>>

NextCopy ==
  \/ \E s \in CopyInputs : Reparse(s)
  \/ \E k \in OwnKeys : \E v \in OwnValues : Annotate(k, v)
  \/ MergeCopy
  \/ Keep

SpecCopy == InitAcc /\ [][NextCopy]_vars

----------------------------------------------------------------------------
(* Properties of calls without an accumulator (Spec) *)

\* the input as the grammar sees it: trimmed, upper-cased, SSID removed
Normalized(s) == extractSsid(ToUpperCase(Trim(s)), EmptyInfo).callsign

GrammarAccepts(s) == CallsignMatch(Normalized(s)).ok

\* C1: an input that does not match the callsign grammar yields a record with no
\* field set at all.
C1_RejectedIsEmpty ==
  (op = "parse" /\ ~GrammarAccepts(raw)) => fresh = EmptyInfo

Returned == IF op = "prefix" THEN pres ELSE fresh

C4_LastDigitWins ==
  (op = "parse" /\ Has(fresh, "postindicators")) =>
    LET posts  == fresh.postindicators
        last   == posts[Len(posts)]
        before == parseCallsign(Take(fresh.call, Len(fresh.call) - Len(last) - 1), EmptyInfo)
    IN  IsDigits(last) =>
          /\ Has(fresh, "digit") /\ fresh.digit = last
          /\ Has(fresh, "ituPrefix") => fresh.prefix = fresh.ituPrefix \o last
          /\ Has(before, "call") =>
               /\ Has(before, "ituPrefix") = Has(fresh, "ituPrefix")
               /\ Has(fresh, "ituPrefix") => before.ituPrefix = fresh.ituPrefix

C4_Witness ==
  /\ op = "parse"
  /\ Has(fresh, "postindicators")
  /\ fresh.postindicators = << <<"1">>, <<"2">> >>
  /\ fresh.digit = <<"2">>
  /\ fresh.ituPrefix = <<"N">>
  /\ fresh.prefix = <<"N","2">>

\* the fields that hold the prefix
PrefixState(r) == [k \in DOMAIN r \cap {"prefix", "ituPrefix", "digit"} |-> r[k]]

\* the tokens of the trimmed, upper-cased, SSID-free input between its slashes
InputTokens == Split(Normalized(raw))

\* the groups CALLSIGN_REGEXP finds in the input
InputParts == CallsignMatch(Normalized(raw))

\* the input has a pre-indicator and its base call is no Entity Table entry
C10_Case(parts, tokens) ==
  /\ parts.ok
  /\ parts.p1 # <<>>
  /\ tokens[2] \notin KNOWN_ENTITIES

C10_Result(tokens) ==
  /\ Has(fresh, "baseCall") /\ fresh.baseCall = tokens[2]
  /\ Has(fresh, "preindicator") /\ fresh.preindicator = tokens[1]
  /\ Has(fresh, "prefixOverride") /\ fresh.prefixOverride = tokens[1]
  /\ PrefixState(fresh) = PrefixState(processPrefix(tokens[1], EmptyInfo))

NoOverridingPost(tokens) ==
  \A i \in 3..Len(tokens) : \E t \in {tokens[i]} : indicatorBranch(t) \in {"indicator", "ignored"}

----------------------------------------------------------------------------
(* Properties of calls that share an accumulator (SpecAcc) *)

\* C8: after a call that passed the accumulator and whose input the grammar
\* accepts, postindicators is what the input alone gives: the tokens a parse of
\* the same input into an empty record returns, and absent when that has none.
C8_PostindicatorsRederived ==
  (op = "parseInto" /\ GrammarAccepts(raw)) =>
    /\ Has(info, "postindicators") = Has(parseCallsign(raw, EmptyInfo), "postindicators")
    /\ Has(info, "postindicators") =>
         info.postindicators = parseCallsign(raw, EmptyInfo).postindicators

\* a is b with some entries left out
RECURSIVE IsSubsequence(_, _)
IsSubsequence(a, b) ==
  IF a = <<>> THEN TRUE
  ELSE IF b = <<>> THEN FALSE
  ELSE IF Head(a) = Head(b) THEN IsSubsequence(Tail(a), Tail(b))
  ELSE IsSubsequence(a, Tail(b))

\* C9: in every record a parse returns, with a new or a shared accumulator,
\* indicators is a subsequence of postindicators.
C9_IndicatorsSubsequence ==
  (op \in {"parse", "parseInto"} /\ Has(info, "indicators")) =>
    /\ Has(info, "postindicators")
    /\ IsSubsequence(info.indicators, info.postindicators)

----------------------------------------------------------------------------
(* Properties of the merge utility (SpecMerge) *)

\* the fields of the ParsedCallsign interface
ParsedCallsignFields == CALLSIGN_INFO_KEYS \cup {"extendedPrefix"}

\* C5: merging the parse of the current input into the record twice leaves the
\* record equal to that parse.
C5_MergeTwiceIsFreshParse ==
  (op = "merge" /\ merges = 2) => acc = fresh

\* C6: after a merge every field of the canonical field set that the fresh
\* record has is in the result with the fresh value, a digit that is the empty
\* string included.
C6_CopiesEverySetField ==
  op = "merge" =>
    \A k \in DOMAIN fresh \cap CALLSIGN_INFO_KEYS : Has(acc, k) /\ acc[k] = fresh[k]

\* C7: after a merge no ParsedCallsign field that the fresh record lacks is left
\* on the record.
C7_NoStaleField ==
  op = "merge" => \A k \in ParsedCallsignFields : ~Has(fresh, k) => ~Has(acc, k)

----------------------------------------------------------------------------
(* Properties of the Indicator Classifier in calls without an accumulator   *)
(* (Spec)                                                                   *)

\* the fields that hold the whole prefix state
FullPrefixState(r) ==
  [k \in DOMAIN r \cap {"prefix", "ituPrefix", "digit", "extendedPrefix"} |-> r[k]]

\* the fields an operating-condition indicator has to leave alone
OverrideState(r) ==
  [k \in DOMAIN r \cap {"prefix", "ituPrefix", "digit", "prefixOverride"} |-> r[k]]

\* the post-indicator that was processed last
LastPost == fresh.postindicators[Len(fresh.postindicators)]

\* the parse of the same call without its last post-indicator
BeforeLast == parseCallsign(Take(fresh.call, Len(fresh.call) - Len(LastPost) - 1), EmptyInfo)

\* the call without its last post-indicator parses with the same base call and
\* pre-indicator
SameBase ==
  /\ Has(BeforeLast, "baseCall") /\ BeforeLast.baseCall = fresh.baseCall
  /\ Has(BeforeLast, "preindicator") = Has(fresh, "preindicator")

\* the entity-table correction was applied: the input's pre-indicator became the
\* base call
Swapped ==
  /\ op = "parse"
  /\ GrammarAccepts(raw)
  /\ CallsignMatch(Normalized(raw)).p1 # <<>>
  /\ ~Has(fresh, "preindicator")

\* C11: after a post-indicator of the suffixed-country shape is processed,
\* ituPrefix, digit, prefix and extendedPrefix are exactly what the Prefix
\* Resolver gives for that token alone, and prefixOverride is the token.
C11_CountryAdoptsWholesale ==
  (op = "parse" /\ Has(fresh, "postindicators") /\ IsSuffixedCountry(LastPost)) =>
    /\ FullPrefixState(fresh) = FullPrefixState(processPrefix(LastPost, EmptyInfo))
    /\ Has(fresh, "prefixOverride") /\ fresh.prefixOverride = LastPost

\* info.indicators || []
indicatorsOrEmpty(info0) == IF Truthy(info0, "indicators") THEN info0.indicators ELSE <<>>

\* C12: processing a post-indicator of the known operating-condition list
\* appends it to indicators and leaves prefix, ituPrefix, digit and
\* prefixOverride as they were before the token.
C12_IndicatorAppended ==
  (op = "parse" /\ Has(fresh, "postindicators") /\ ~Swapped
     /\ LastPost \in KNOWN_INDICATORS /\ SameBase)
  => /\ Has(fresh, "indicators")
     /\ fresh.indicators = indicatorsOrEmpty(BeforeLast) \o <<LastPost>>
     /\ OverrideState(fresh) = OverrideState(BeforeLast)

----------------------------------------------------------------------------
(* Properties of the Callsign Parser in calls without an accumulator (Spec) *)

\* the input has a pre-indicator and its base call is an Entity Table entry
C13_Case(parts) ==
  /\ parts.ok
  /\ parts.p1 # <<>>
  /\ (parts.p2 \o parts.p3) \in KNOWN_ENTITIES

C13_Result(parts, tokens) ==
  /\ Has(fresh, "baseCall") /\ fresh.baseCall = tokens[1]
  /\ ~Has(fresh, "preindicator")
  /\ Has(fresh, "postindicators")
  /\ fresh.postindicators = SubSeq(tokens, 3, Len(tokens)) \o <<tokens[2]>>
  /\ Has(fresh, "prefix") /\ fresh.prefix = parts.p2 \o parts.p3

\* C13: with a pre-indicator P and a base call B that is an Entity Table entry,
\* baseCall is P, preindicator is absent, postindicators is the input's own
\* post-indicator tokens followed by B, and prefix is B.
C13_EntityCorrection ==
  op = "parse" =>
    \A s \in {Normalized(raw)} : \A parts \in {CallsignMatch(s)} : \A tokens \in {Split(s)} :
      C13_Case(parts) => C13_Result(parts, tokens)

C13_Witness ==
  /\ op = "parse"
  /\ raw = <<"Y","V","/","V","P","2","V","/","K","H","6">>
  /\ fresh.baseCall = <<"Y","V">>
  /\ fresh.postindicators = << <<"K","H","6">>, <<"V","P","2","V">> >>
  /\ fresh.prefix = <<"V","P","2","V">>
  /\ ~Has(fresh, "preindicator")

\* C14: when ssid is set (and the input parsed), the SSID is the end of the
\* trimmed, upper-cased input: that input is call, then '-', then ssid, and call
\* holds no '-'.
C14_SsidIsTrailing ==
  (op = "parse" /\ Has(fresh, "ssid") /\ Has(fresh, "call")) =>
    /\ ToUpperCase(Trim(raw)) = fresh.call \o <<"-">> \o fresh.ssid
    /\ \A i \in 1..Len(fresh.call) : fresh.call[i] # "-"

\* c is one of the four alternatives of the second group of CALLSIGN_REGEXP
IsCore(c) ==
  \/ Len(c) >= 2 /\ c[1] = "5" /\ c[2] = "U" /\ AllIn(Drop(c, 2), Letters)
  \/ Len(c) \in {3, 4} /\ c[1] \in Digits /\ c[Len(c)] \in Digits
       /\ AllIn(SubSeq(c, 2, Len(c) - 1), Letters)
  \/ Len(c) = 2 /\ c[1] \in RestrictedLetters /\ c[2] \in Digits
  \/ Len(c) \in {2, 3} /\ c[Len(c)] \in Digits /\ AllIn(Take(c, Len(c) - 1), Letters)

\* the first group: nothing, or letters and digits and a slash
IsPrePart(t) ==
  t = <<>> \/ (Len(t) >= 2 /\ t[Len(t)] = "/" /\ AllIn(Take(t, Len(t) - 1), AlphaNum))

\* the positions of the slashes of s
Slashes(s) == {i \in 1..Len(s) : s[i] = "/"}

\* after a characters of s come a core of k characters and a suffix of letters
\* and digits up to position e
CoreAndSuffix(s, a, k, e) ==
  /\ IsCore(SubSeq(s, a + 1, a + k))
  /\ AllIn(SubSeq(s, a + k + 1, e), AlphaNum)

\* the whole of s has the shape of CALLSIGN_REGEXP: a pre-indicator part (it
\* can only end at a slash), a core, a suffix of at least one character (it can
\* only end at the end of s or just before a slash) and a post-indicator part
HasCallsignShape(s) ==
  \E a \in {0} \cup Slashes(s) :
    /\ IsPrePart(Take(s, a))
    /\ \E e \in {Len(s)} \cup {i - 1 : i \in Slashes(s)} :
         /\ IsPostPart(Drop(s, e))
         /\ \E k \in 2..(e - a - 1) : CoreAndSuffix(s, a, k, e)

\* t cannot be a base call: it is a core that ends in its digit with nothing
\* after it, or it starts with two digits
BadBase(t) ==
  \/ IsCore(t) /\ t[Len(t)] \in Digits
  \/ Len(t) >= 2 /\ t[1] \in Digits /\ t[2] \in Digits

InvalidPrefix(s) ==
  \/ Len(s) >= 2 /\ s[1] \in Digits /\ s[2] \in Digits
  \/ Len(s) >= 4 /\ s[1] \in Digits /\ s[2] \in Letters /\ s[3] \in Letters /\ s[4] \in Digits

\* C16: baseCall is unset for every input that begins with two digits or with a
\* digit, two letters and a digit.
C16_InvalidPrefixIgnored ==
  (op = "parse" /\ InvalidPrefix(ToUpperCase(Trim(raw)))) => ~Has(fresh, "baseCall")

----------------------------------------------------------------------------
(* Where the prefix of a result comes from (Spec) *)

\* the post-indicators that resolve a new prefix
OverridingPosts(posts) ==
  {i \in 1..Len(posts) : \E t \in {posts[i]} :
     indicatorBranch(t) \in {"country", "entity", "ituEntity"}}

\* the last of them, 0 when there is none
LastOverriding(posts) ==
  IF OverridingPosts(posts) = {} THEN 0 ELSE Max(OverridingPosts(posts))

\* a digit post-indicator comes after position j
DigitAfter(posts, j) == \E i \in (j + 1)..Len(posts) : IsDigits(posts[i])

\* the token the prefix of r was resolved from, j being the last overriding
\* post-indicator: that one, else the pre-indicator, else the base call
SourceToken(r, posts, j) ==
  IF j > 0 THEN posts[j]
  ELSE IF Has(r, "preindicator") THEN r.preindicator
  ELSE r.baseCall

\* t has no digit after its entity letters (the first group of PREFIX_REGEXP)
Digitless(t) == PrefixLen(t) > 0 /\ At(t, PrefixLen(t) + 1) \notin Digits

\* the prefix of r comes from an indicator that has no digit (and is not of the
\* operating-condition list), and no digit post-indicator follows it
C17_Case(r, posts, j) ==
  /\ j > 0 \/ Has(r, "preindicator")
  /\ Digitless(SourceToken(r, posts, j))
  /\ SourceToken(r, posts, j) \notin KNOWN_INDICATORS
  /\ ~DigitAfter(posts, j)

\* C17: when a pre- or post-indicator without a digit supplies the prefix, the
\* prefix is the indicator followed by the digit 0.
C17_DigitlessDefaultsToZero ==
  (op = "parse" /\ Has(fresh, "baseCall")) =>
    \A posts \in {postindicatorsOrEmpty(fresh)} : \A j \in {LastOverriding(posts)} :
      C17_Case(fresh, posts, j) =>
        fresh.prefix = SourceToken(fresh, posts, j) \o <<"0">>

\* the prefix comes from a token without a digit after its entity letters, and
\* no digit post-indicator follows it
C18_Case(r, posts, j) ==
  /\ Digitless(SourceToken(r, posts, j))
  /\ ~DigitAfter(posts, j)

C18_Result(r) ==
  /\ Has(r, "digit") /\ r.digit = <<>>
  /\ Has(r, "prefix") /\ Has(r, "ituPrefix") /\ r.prefix = r.ituPrefix

\* the Niger shape: 5U and a letter
IsNiger(t) == Len(t) >= 3 /\ t[1] = "5" /\ t[2] = "U" /\ t[3] \in Letters

\* for Niger the prefix keeps the letter and ituPrefix is cut back to 5U
C18_NigerResult(r, t) ==
  /\ Has(r, "digit") /\ r.digit = <<>>
  /\ Has(r, "prefix") /\ r.prefix = Take(t, 3)
  /\ Has(r, "ituPrefix") /\ r.ituPrefix = <<"5","U">>

C18_EntityResult(r, t) ==
  /\ Has(r, "digit") /\ r.digit = <<>>
  /\ Has(r, "prefix") /\ r.prefix = t

\* what the amended claim asks of the record r resolved from the token t
C18_AmendedResult(r, t) ==
  IF IsNiger(t) THEN C18_NigerResult(r, t)
  ELSE IF ToUpperCase(t) \in KNOWN_ENTITIES THEN C18_EntityResult(r, t)
  ELSE C18_Result(r)

FromIndicator(r, posts, j) ==
  /\ j > 0 \/ Has(r, "preindicator")
  /\ PrefixLen(SourceToken(r, posts, j)) > 0

\* C19: in a fresh parse result prefixOverride is set exactly when the final
\* prefix was resolved from a pre- or post-indicator rather than from the base
\* call, and it is then the last token so resolved.
C19_OverrideIffFromIndicator ==
  op = "parse" =>
    \A posts \in {postindicatorsOrEmpty(fresh)} : \A j \in {LastOverriding(posts)} :
      /\ Has(fresh, "prefixOverride") <=> FromIndicator(fresh, posts, j)
      /\ Has(fresh, "prefixOverride") => fresh.prefixOverride = SourceToken(fresh, posts, j)

\* C20: in a fresh parse result extendedPrefix is present only when the base
\* call has digits right after its separating digit, and it is then the
\* result's prefix followed by those digits.
C20_ExtendedPrefix ==
  (op = "parse" /\ Has(fresh, "extendedPrefix")) =>
    \A baseParts \in {PrefixMatch(fresh.baseCall)} :
      /\ baseParts.ok /\ baseParts.p2 # <<>> /\ baseParts.p3 # <<>>
      /\ fresh.extendedPrefix = fresh.prefix \o baseParts.p3

----------------------------------------------------------------------------
(* Properties of the Prefix Resolver *)

\* the lengths each alternative of the first group of PREFIX_REGEXP can take at
\* the start of s, the alternatives in their order
AltLens(s) ==
  << IF At(s, 1) = "3" /\ At(s, 2) = "D" /\ At(s, 3) \in AlphaNum THEN {3} ELSE {},
     IF At(s, 1) = "5" /\ At(s, 2) = "U" /\ At(s, 3) \in Letters THEN {3} ELSE {},
     {k \in {2, 3} : At(s, 1) \in Digits /\ \A i \in 2..k : At(s, i) \in Letters},
     IF At(s, 1) \in RestrictedLetters /\ At(s, 2) \in Digits THEN {2} ELSE {},
     {k \in {1, 2} : \A i \in 1..k : At(s, i) \in Letters} >>

\* no alternative applies to s
NoAlternative(s) == \A i \in 1..5 : AltLens(s)[i] = {}

\* C21: the Prefix Resolver on a token that matches no alternative leaves every
\* field of its accumulator as it was, and returns an empty record when it is
\* given no accumulator.
C21_NoMatchNoChange ==
  [][ /\ (op' = "prefixInto" /\ NoAlternative(raw')) => info' = info
      /\ (op' = "prefix" /\ NoAlternative(raw')) => info' = EmptyInfo ]_vars

C21_Witness ==
  /\ op = "prefixInto"
  /\ raw = <<"1","2">>
  /\ Has(info, "call") /\ Has(info, "prefix") /\ Has(info, "postindicators")

\* the whole token is an Entity Table entry (the table is looked up in upper
\* case)
IsEntity(t) == ToUpperCase(t) \in KNOWN_ENTITIES

C22_EntityResult(r, t) == r.prefix = t /\ ~Has(r, "extendedPrefix")

SingleLetterPrefixes == {"B", "F", "G", "I", "K", "M", "N", "R", "W"}

\* C24: for a token that starts with a letter L and a digit d, ituPrefix is L
\* and digit is d when L is one of B, F, G, I, K, M, N, R, W; for any other
\* letter ituPrefix is L d and digit is the next character when that is a digit,
\* else the empty string.
C24_LetterDigit ==
  (op = "prefix" /\ At(raw, 1) \in Letters /\ At(raw, 2) \in Digits) =>
    /\ Has(pres, "ituPrefix") /\ Has(pres, "digit")
    /\ IF raw[1] \in SingleLetterPrefixes
       THEN pres.ituPrefix = <<raw[1]>> /\ pres.digit = <<raw[2]>>
       ELSE /\ pres.ituPrefix = <<raw[1], raw[2]>>
            /\ pres.digit = (IF At(raw, 3) \in Digits THEN <<raw[3]>> ELSE <<>>)

C24_Witness ==
  /\ op = "prefix"
  /\ raw = <<"V","3","3">>
  /\ pres.ituPrefix = <<"V","3">>
  /\ pres.digit = <<"3">>

\* the alternative that wins for s: the first one that applies, 0 when none does
FirstAlternative(s) ==
  IF NoAlternative(s) THEN 0 ELSE Min({i \in 1..5 : AltLens(s)[i] # {}})

\* the length of the entity letters: the winning alternative takes as much as
\* it can
ExpectedLen(s, alt) == Max(AltLens(s)[alt])

\* what the resolver returns when alternative alt wins with k characters
C25_Result(r, s, alt, k) ==
  /\ r.ituPrefix = (IF alt = 2 THEN <<"5","U">> ELSE Take(s, k))
  /\ r.digit = (IF At(s, k + 1) \in Digits THEN <<s[k + 1]>> ELSE <<>>)
  /\ ~IsEntity(s) => r.prefix = Take(s, k) \o r.digit

\* C25: resolvePrefix takes the first alternative that applies, in the order
\* 3D and a letter or digit, 5U and a letter, a digit and one or two letters, a
\* restricted letter and a digit, one or two letters; a token that begins with
\* 3D gets its first three characters as ituPrefix.
C25_FirstAlternativeWins ==
  (op = "prefix" /\ ~NoAlternative(raw)) =>
    /\ \A alt \in {FirstAlternative(raw)} : \A k \in {ExpectedLen(raw, alt)} :
         C25_Result(pres, raw, alt, k)
    /\ (At(raw, 1) = "3" /\ At(raw, 2) = "D") => pres.ituPrefix = Take(raw, Min({3, Len(raw)}))

C25_Witness ==
  /\ op = "prefix"
  /\ raw = <<"3","D","2","A">>
  /\ pres.ituPrefix = <<"3","D","2">>
  /\ pres.digit = <<>>
  /\ pres.prefix = <<"3","D","2">>

\* C26: for every token that begins with 5U and a letter, resolvePrefix sets
\* ituPrefix to 5U and digit to the empty string (present, not absent).
C26_NigerNoDigit ==
  (op = "prefix" /\ IsNiger(raw)) =>
    /\ Has(pres, "ituPrefix") /\ pres.ituPrefix = <<"5","U">>
    /\ Has(pres, "digit") /\ pres.digit = <<>>

----------------------------------------------------------------------------
(* Further properties of calls without an accumulator (Spec) *)

\* t is not all digits, not of the suffixed-country shape and not a known
\* operating indicator
IsOtherToken(t) == ~IsDigits(t) /\ ~IsSuffixedCountry(t) /\ t \notin KNOWN_INDICATORS

\* t is an Entity Table entry, or the ituPrefix the Prefix Resolver derives from
\* it is one
IsVerifiable(t) ==
  t \in KNOWN_ENTITIES \/ ituPrefixOrEmpty(processPrefix(t, EmptyInfo)) \in KNOWN_ENTITIES

\* the fields a token that is ignored has to leave alone
IgnoredState(r) ==
  [k \in DOMAIN r \cap {"prefix", "ituPrefix", "digit", "prefixOverride", "indicators"} |-> r[k]]

\* C23: a post-indicator that is not all digits, not of the suffixed-country
\* shape and not a known indicator replaces the prefix state by the Prefix
\* Resolver's result on it, prefixOverride being the token, exactly when it is
\* an Entity Table entry or its derived ituPrefix is one; otherwise prefix,
\* ituPrefix, digit, prefixOverride and indicators stay as they were and the
\* token is in postindicators.
C23_FallbackOverride ==
  (op = "parse" /\ Has(fresh, "postindicators")) =>
    \A t \in {LastPost} :
      IsOtherToken(t) =>
        IF IsVerifiable(t)
        THEN /\ FullPrefixState(fresh) = FullPrefixState(processPrefix(t, EmptyInfo))
             /\ Has(fresh, "prefixOverride") /\ fresh.prefixOverride = t
        ELSE (~Swapped /\ SameBase) => IgnoredState(fresh) = IgnoredState(BeforeLast)

\* the characters of s
Chars(s) == {s[i] : i \in 1..Len(s)}

\* C27: in a fresh parse result prefix, when set, is made of characters of the
\* trimmed, upper-cased input only: a digit post-indicator is never joined to
\* an ituPrefix that is not set.
C27_PrefixFromInput ==
  (op = "parse" /\ Has(fresh, "prefix")) =>
    Chars(fresh.prefix) \subseteq Chars(ToUpperCase(Trim(raw)))

\* C28: in a fresh parse result with call set, preindicator (when present),
\* baseCall and the postindicators in their order, joined with '/', give call.
C28_PartsRebuildCall ==
  (op = "parse" /\ Has(fresh, "call")) =>
    fresh.call = (IF Has(fresh, "preindicator") THEN fresh.preindicator \o <<"/">> ELSE <<>>)
                 \o fresh.baseCall \o JoinPost(postindicatorsOrEmpty(fresh))

\* C28 as amended: the same unless the entity-table correction was applied to an
\* input with post-indicators of its own; the base call is then recorded after
\* them, and call is baseCall, the last of postindicators, and the others.
C28_PartsRebuildCallUnlessSwapped ==
  (op = "parse" /\ Has(fresh, "call")) =>
    \A posts \in {postindicatorsOrEmpty(fresh)} :
      IF Swapped
      THEN fresh.call = fresh.baseCall \o <<"/">> \o posts[Len(posts)]
                        \o JoinPost(Take(posts, Len(posts) - 1))
      ELSE fresh.call = (IF Has(fresh, "preindicator") THEN fresh.preindicator \o <<"/">> ELSE <<>>)
                        \o fresh.baseCall \o JoinPost(posts)

C28_Witness ==
  /\ op = "parse"
  /\ raw = <<"Y","V","/","N","0","C","/","P","/","1">>
  /\ fresh.call = raw
  /\ fresh.preindicator = <<"Y","V">>
  /\ fresh.baseCall = <<"N","0","C">>
  /\ fresh.postindicators = << <<"P">>, <<"1">> >>

\* C30: in a fresh parse result no token of postindicators is the empty string.
C30_NoEmptyPostindicator ==
  (op = "parse" /\ Has(fresh, "postindicators")) =>
    \A i \in 1..Len(fresh.postindicators) : fresh.postindicators[i] # <<>>

----------------------------------------------------------------------------
(* Properties of a merge into a copy (SpecCopy) *)

\* C29: mergeCallsignInfo called without a destination leaves the base record
\* and the fresh record as they were, and every field of base that is not one
\* of CALLSIGN_INFO_KEYS is in the result with the same value.
C29_MergeCopyFrame ==
  [][ op' = "mergeCopy" =>
        /\ acc' = acc
        /\ fresh' = fresh
        /\ \A k \in DOMAIN acc \ CALLSIGN_INFO_KEYS :
              Has(info', k) /\ info'[k] = acc[k] ]_vars

\* a merge that deleted a callsign field and kept the caller's own field
C29_Witness ==
  /\ op = "mergeCopy"
  /\ Has(acc, "name") /\ acc.name = <<"J","O">>
  /\ Has(acc, "preindicator") /\ ~Has(fresh, "preindicator")
  /\ ~Has(info, "preindicator")
  /\ Has(info, "name") /\ info.name = <<"J","O">>
  /\ info.call = fresh.call /\ info.call # acc.call

====
